---------------------------- MODULE Spec2Model ----------------------------
(***************************************************************************)
(* Manim-Code-Gen frontend: the three Next.js proxy route handlers         *)
(* (POST /api/generate-video, GET /api/video-status/:taskId,               *)
(* GET /api/community-videos) and the VideoGenerator React component with  *)
(* its setTimeout polling loop, inside the two-tab Home page.              *)
(***************************************************************************)
EXTENDS Integers, Sequences, FiniteSets, TLC

VARIABLES
    tab,      \* the selected tab of Home: "generate" | "community"
    inst,     \* number of the mounted (or last mounted) VideoGenerator instance
    vg,       \* the useState cells of the mounted VideoGenerator
    genReqs,  \* fetch("/api/generate-video") calls in flight
    polls,    \* fetch("/api/video-status/<id>") calls in flight
    timers,   \* setTimeout(() => pollStatus(id), ...) callbacks not yet fired
    nextTask, \* the next task id the external service hands out
    ended,    \* history: how the polling loop of each task ended
    latest,   \* history: the task of the user's latest generation, once it has started
    px        \* history: the last run of a proxy route handler

vars == <<tab, inst, vg, genReqs, polls, timers, nextTask, ended, latest, px>>

(***************************************************************************)
(* Bounds of the model.                                                    *)
(***************************************************************************)
MaxTasks == 2
MaxMounts == 2

(***************************************************************************)
(* JavaScript values.  Strings the code inspects character by character    *)
(* (the prompt) are sequences of characters; a prompt value is tagged with *)
(* its JavaScript type.  Other strings are TLA+ strings, with Undef and    *)
(* Null standing for undefined and null.                                   *)
(***************************************************************************)
Undef == "<undefined>"
Null == "<null>"
NoTask == 0

\* The prompts typed or posted: empty, whitespace only, text within whitespace.
Strings == {<<>>, <<" ">>, <<" ", "a", " ">>}

PStr(s) == [t |-> "string", v |-> s]
PUndef == [t |-> "undefined", v |-> <<>>]
PNull == [t |-> "null", v |-> <<>>]
PZero == [t |-> "zero", v |-> <<>>]
PNum == [t |-> "number", v |-> <<>>]
PromptValues == {PStr(s) : s \in Strings} \cup {PUndef, PNull, PZero, PNum}

\* ToBoolean of a prompt value: `!prompt`.
TruthyDefined(x) == x.t # "undefined"
Truthy(x) ==
    CASE x.t = "string" -> x.v # <<>>
      [] x.t = "number" -> TRUE
      [] OTHER -> FALSE

\* a || b on string-valued fields.
OrElse(a, b) == IF a \in {Undef, Null, ""} THEN b ELSE a

\* String.prototype.trim
RECURSIVE TrimStart(_)
TrimStart(s) == IF s # <<>> /\ Head(s) = " " THEN TrimStart(Tail(s)) ELSE s
RECURSIVE TrimEnd(_)
TrimEnd(s) == IF s # <<>> /\ s[Len(s)] = " " THEN TrimEnd(SubSeq(s, 1, Len(s) - 1)) ELSE s
Trim(s) == TrimEnd(TrimStart(s))

(***************************************************************************)
(* The external service as the proxies see it through axios.               *)
(***************************************************************************)
NoData == [task_id |-> NoTask, status |-> Undef, video_url |-> Undef, error_message |-> Undef]
GenData(t) == [NoData EXCEPT !.task_id = t]
StatusData(t) ==
    {[NoData EXCEPT !.task_id = t, !.status = s] : s \in {"queued", "processing", "other"}}
    \cup {[NoData EXCEPT !.task_id = t, !.status = "completed", !.video_url = u] :
            u \in {"http://v.mp4", Undef}}
    \cup {[NoData EXCEPT !.task_id = t, !.status = "failed", !.error_message = m] :
            m \in {"render error", Undef}}

OkStatuses == {200, 201, 202}
ErrStatuses == {404, 422, 500}
Details == {"Task not found", "", Undef}

\* What one call to the external service ends in: a response, or none at all.
ErrOutcomes ==
    {[kind |-> "response", status |-> s, detail |-> d, data |-> NoData] :
        s \in ErrStatuses, d \in Details}
    \cup {[kind |-> "none", status |-> 0, detail |-> Undef, data |-> NoData]}
OkOutcomes(D) ==
    {[kind |-> "response", status |-> s, detail |-> Undef, data |-> d] :
        s \in OkStatuses, d \in D}
\* The outcomes drawn for the calls a browser session causes; the proxy routes
\* themselves are run on every outcome by ProxyNext.
SessionOutcomes(D) ==
    {[kind |-> "response", status |-> 200, detail |-> Undef, data |-> d] : d \in D}
    \cup {[kind |-> "response", status |-> 404, detail |-> "Task not found", data |-> NoData],
          [kind |-> "none", status |-> 0, detail |-> Undef, data |-> NoData]}
NotCalled == [kind |-> "notcalled", status |-> 0, detail |-> Undef, data |-> NoData]

\* axios resolves on a 2xx status and rejects with an AxiosError otherwise.
Resolves(ext) == ext.kind = "response" /\ ext.status >= 200 /\ ext.status < 300

(***************************************************************************)
(* The proxy route handlers.  Each returns the response it gives and the   *)
(* calls it made to the external service.                                  *)
(***************************************************************************)
GenerateFailed == "Failed to start video generation"
StatusFailed == "Failed to check video status"
CommunityFailed == "Failed to fetch community videos"

NoCall == [endpoint |-> "", prompt |-> PUndef, quality |-> Undef, max_retries |-> 0,
           taskId |-> NoTask]

Json(status, error, data) == [status |-> status, error |-> error, data |-> data]

\* NextResponse.json(response.data): no init, so the status is 200.
Success(ext) == Json(200, Undef, ext.data)

\* The catch block for an AxiosError: error.response?.status || 500 and
\* error.response?.data?.detail || generic.
CatchAlways500(ext, generic) == Json(500, OrElse(ext.detail, generic), NoData)
CatchGeneric(ext, generic) ==
    Json(IF ext.kind = "response" /\ ext.status # 0 THEN ext.status ELSE 500, generic, NoData)
CatchNoDefault(ext, generic) == Json(ext.status, OrElse(ext.detail, generic), NoData)
Catch(ext, generic) ==
    Json(IF ext.kind = "response" /\ ext.status # 0 THEN ext.status ELSE 500,
         OrElse(IF ext.kind = "response" THEN ext.detail ELSE Undef, generic),
         NoData)

\* The catch block for any other throw: request.json() rejecting on a body that is
\* not JSON, or the destructuring of a body that is the JSON null.  (A body that
\* is a JSON number or string destructures to undefined fields.)
CatchOther(generic) == Json(500, generic, NoData)

Bodies ==
    {[kind |-> k, prompt |-> PUndef, quality |-> Undef] : k \in {"malformed", "null", "primitive"}}
    \cup {[kind |-> "object", prompt |-> p, quality |-> q] :
            p \in PromptValues, q \in {Undef, Null, "low", "medium", "high", "ultra"}}

\* `quality = "low"` in the destructuring: the default applies to undefined only.
QualityAlwaysLow(q) == "low"
QualityOf(q) == IF q = Undef THEN "low" ELSE q

MaxRetries == 5

POST(body, ext) ==
    IF body.kind \in {"malformed", "null"}
    THEN [resp |-> CatchOther(GenerateFailed), calls |-> <<>>]
    ELSE IF ~Truthy(body.prompt)
    THEN [resp |-> Json(400, "Prompt is required", NoData), calls |-> <<>>]
    ELSE LET call == [NoCall EXCEPT !.endpoint = "generate-video/",
                                    !.prompt = body.prompt,
                                    !.quality = QualityOf(body.quality),
                                    !.max_retries = MaxRetries]
         IN  [resp |-> IF Resolves(ext) THEN Success(ext) ELSE Catch(ext, GenerateFailed),
              calls |-> <<call>>]

GETStatus(taskId, ext) ==
    LET call == [NoCall EXCEPT !.endpoint = "video-status/", !.taskId = taskId]
    IN  [resp |-> IF Resolves(ext) THEN Success(ext) ELSE Catch(ext, StatusFailed),
         calls |-> <<call>>]

GETCommunity(ext) ==
    LET call == [NoCall EXCEPT !.endpoint = "videos/completed"]
    IN  [resp |-> IF Resolves(ext) THEN Success(ext) ELSE Catch(ext, CommunityFailed),
         calls |-> <<call>>]

NoBody == [kind |-> "none", prompt |-> PUndef, quality |-> Undef]
Ran(handler, body, taskId, ext, r) ==
    [handler |-> handler, body |-> body, taskId |-> taskId,
     ext |-> IF r.calls = <<>> THEN NotCalled ELSE ext,
     resp |-> r.resp, calls |-> r.calls]
NoRun == [handler |-> "none", body |-> NoBody, taskId |-> NoTask, ext |-> NotCalled,
          resp |-> Json(0, Undef, NoData), calls |-> <<>>]


(***************************************************************************)
(* The VideoGenerator component.                                           *)
(***************************************************************************)
PollInterval == 60000
ForeignTasks == {-1}

InitVG == [prompt |-> <<>>, quality |-> "low", isGenerating |-> FALSE, taskId |-> NoTask,
           status |-> NoData, progress |-> 0, error |-> Null]

Init ==
    /\ tab = "generate"
    /\ inst = 1
    /\ vg = InitVG
    /\ genReqs = {}
    /\ polls = {}
    /\ timers = {}
    /\ nextTask = 1
    /\ ended = [t \in 1..MaxTasks |-> "no"]
    /\ latest = NoTask
    /\ px = NoRun

\* A state setter called by the closure of instance `owner`: React applies it
\* to the mounted instance it belongs to and drops it once that is unmounted.
SetState(owner, new) == IF tab = "generate" /\ owner = inst THEN new ELSE vg

\* response.ok
Ok(resp) == resp.status >= 200 /\ resp.status < 300

\* <Textarea onChange={(e) => setPrompt(e.target.value)} disabled={isGenerating} />
SetPrompt(s) ==
    /\ tab = "generate"
    /\ ~vg.isGenerating
    /\ s # vg.prompt
    /\ vg' = [vg EXCEPT !.prompt = s]
    /\ px' = NoRun
    /\ UNCHANGED <<tab, inst, genReqs, polls, timers, nextTask, ended, latest>>

\* <select onChange={(e) => setQuality(...)} disabled={isGenerating}>
SetQuality(q) ==
    /\ tab = "generate"
    /\ ~vg.isGenerating
    /\ q # vg.quality
    /\ vg' = [vg EXCEPT !.quality = q]
    /\ px' = NoRun
    /\ UNCHANGED <<tab, inst, genReqs, polls, timers, nextTask, ended, latest>>

\* <Button onClick={handleGenerate} disabled={!prompt.trim() || isGenerating}>
ButtonEnabled == Trim(vg.prompt) # <<>> /\ ~vg.isGenerating

\* handleGenerate up to its first await.
HandleGenerate ==
    /\ tab = "generate"
    /\ ButtonEnabled
    /\ nextTask + Cardinality(genReqs) <= MaxTasks
    /\ IF Trim(vg.prompt) = <<>>
       THEN UNCHANGED <<vg, genReqs, latest>>
       ELSE /\ vg' = [vg EXCEPT !.isGenerating = TRUE, !.error = Null,
                                !.status = NoData, !.progress = 0]
            /\ genReqs' = genReqs \cup
                   {[owner |-> inst, prompt |-> vg.prompt, quality |-> vg.quality]}
            /\ latest' = NoTask
    /\ px' = NoRun
    /\ UNCHANGED <<tab, inst, polls, timers, nextTask, ended>>

\* The catch block of handleGenerate and of pollStatus.
Failed(owner, msg) == SetState(owner, [vg EXCEPT !.error = msg, !.isGenerating = FALSE])

\* handleGenerate after `await fetch("/api/generate-video", ...)`: the proxy's
\* POST handler runs on the stringified {prompt, quality}, unless the fetch
\* itself rejects.
GenerateFetchFails(r) ==
    /\ r \in genReqs
    /\ genReqs' = genReqs \ {r}
    /\ vg' = Failed(r.owner, "Failed to fetch")
    /\ px' = NoRun
    /\ UNCHANGED <<tab, inst, polls, timers, nextTask, ended, latest>>

GenerateResponds(r, ext) ==
    /\ r \in genReqs
    /\ LET body == [kind |-> "object", prompt |-> PStr(r.prompt), quality |-> r.quality]
           run == POST(body, ext)
       IN  /\ px' = Ran("POST", body, NoTask, ext, run)
           /\ genReqs' = genReqs \ {r}
           /\ IF Ok(run.resp)
              THEN LET id == run.resp.data.task_id
                   IN  /\ vg' = SetState(r.owner, [vg EXCEPT !.taskId = id])
                       /\ polls' = polls \cup {[owner |-> r.owner, id |-> id]}
                       /\ latest' = IF r.owner = inst THEN id ELSE latest
              ELSE LET msg == OrElse(run.resp.error, "Failed to start video generation")
                   IN  /\ vg' = Failed(r.owner, msg)
                       /\ polls' = polls
                       /\ latest' = latest
           /\ nextTask' = IF run.calls # <<>> /\ Resolves(ext) THEN nextTask + 1 ELSE nextTask
    /\ UNCHANGED <<tab, inst, timers, ended>>

\* The setTimeout callback: () => pollStatus(id), up to its first await.
TimerFires(t) ==
    /\ t \in timers
    /\ timers' = timers \ {t}
    /\ polls' = polls \cup {[owner |-> t.owner, id |-> t.id]}
    /\ px' = NoRun
    /\ UNCHANGED <<tab, inst, vg, genReqs, nextTask, ended, latest>>

PollFetchFails(p) ==
    /\ p \in polls
    /\ polls' = polls \ {p}
    /\ vg' = Failed(p.owner, "Failed to fetch")
    /\ ended' = [ended EXCEPT ![p.id] = "error"]
    /\ px' = NoRun
    /\ UNCHANGED <<tab, inst, genReqs, timers, nextTask, latest>>

\* What pollStatus does with a parsed StatusResponse: the switch, and whether it
\* returns before the setTimeout.
TerminalOnlyCompleted(status) == status = "completed"
Terminal(status) == status \in {"completed", "failed"}
AfterStatus(data) ==
    LET s == [vg EXCEPT !.status = data]
    IN  CASE data.status = "queued" -> [s EXCEPT !.progress = 10]
          [] data.status = "processing" -> [s EXCEPT !.progress = 50]
          [] data.status = "completed" -> [s EXCEPT !.progress = 100, !.isGenerating = FALSE]
          [] data.status = "failed" ->
                [s EXCEPT !.error = OrElse(data.error_message,
                                           "Video generation failed. Please try again."),
                          !.isGenerating = FALSE]
          [] OTHER -> s

\* setTimeout(() => pollStatus(id), 60000)
NextTimerShort(p) == [owner |-> p.owner, id |-> p.id, delay |-> 6000]
NextTimer(p) == [owner |-> p.owner, id |-> p.id, delay |-> PollInterval]

\* The JSX guard of the result card: status?.status === "completed" && status.video_url
Displayed ==
    /\ tab = "generate"
    /\ vg.status.status = "completed"
    /\ vg.status.video_url \notin {Undef, Null, ""}

\* History of a task's loop after a status response: "video" for completed with
\* a video_url, "completed" without one, "failed", and unchanged otherwise.
Observed(prev, data) ==
    CASE data.status = "completed" ->
            IF data.video_url \in {Undef, Null, ""} THEN "completed" ELSE "video"
      [] data.status = "failed" -> "failed"
      [] OTHER -> prev

PollResponds(p, ext) ==
    /\ p \in polls
    /\ LET run == GETStatus(p.id, ext)
           data == run.resp.data
       IN  /\ px' = Ran("GETStatus", NoBody, p.id, ext, run)
           /\ polls' = polls \ {p}
           /\ IF ~Ok(run.resp)
              THEN LET msg == OrElse(run.resp.error, "Failed to get status")
                   IN  /\ vg' = Failed(p.owner, msg)
                       /\ ended' = [ended EXCEPT ![p.id] = "error"]
                       /\ timers' = timers
              ELSE /\ vg' = SetState(p.owner, AfterStatus(data))
                   /\ ended' = [ended EXCEPT ![p.id] = Observed(@, data)]
                   /\ timers' = IF Terminal(data.status) THEN timers
                                ELSE timers \cup {NextTimer(p)}
    /\ UNCHANGED <<tab, inst, genReqs, nextTask, latest>>

(***************************************************************************)
(* Home: the Tabs.  TabsContent renders its children only while its tab is *)
(* selected, so leaving the Generate tab unmounts VideoGenerator and       *)
(* coming back mounts a new instance with fresh state.  Nothing cancels    *)
(* the timers and fetches of the old instance.                             *)
(***************************************************************************)
SwitchToCommunity ==
    /\ tab = "generate"
    /\ tab' = "community"
    /\ vg' = InitVG
    /\ px' = NoRun
    /\ UNCHANGED <<inst, genReqs, polls, timers, nextTask, ended, latest>>

SwitchToGenerate ==
    /\ tab = "community"
    /\ inst < MaxMounts
    /\ tab' = "generate"
    /\ inst' = inst + 1
    /\ vg' = InitVG
    /\ px' = NoRun
    /\ UNCHANGED <<genReqs, polls, timers, nextTask, ended, latest>>

(***************************************************************************)
(* The proxy routes called by any HTTP client, with any body.              *)
(***************************************************************************)
Client == <<tab, inst, vg, genReqs, polls, timers, nextTask, ended, latest>>

RequestGenerateVideo(body, ext) ==
    /\ px' = Ran("POST", body, NoTask, ext, POST(body, ext))
    /\ UNCHANGED Client

RequestVideoStatus(t, ext) ==
    /\ px' = Ran("GETStatus", NoBody, t, ext, GETStatus(t, ext))
    /\ UNCHANGED Client

RequestCommunityVideos(ext) ==
    /\ px' = Ran("GETCommunity", NoBody, NoTask, ext, GETCommunity(ext))
    /\ UNCHANGED Client

SessionNext ==
    \/ \E s \in Strings : SetPrompt(s)
    \/ \E q \in {"low", "medium", "high"} : SetQuality(q)
    \/ HandleGenerate
    \/ \E r \in genReqs : GenerateFetchFails(r)
    \/ \E r \in genReqs : \E ext \in SessionOutcomes({GenData(nextTask)}) :
          GenerateResponds(r, ext)
    \/ \E t \in timers : TimerFires(t)
    \/ \E p \in polls : PollFetchFails(p)
    \/ \E p \in polls : \E ext \in SessionOutcomes(StatusData(p.id)) :
          PollResponds(p, ext)
    \/ SwitchToCommunity
    \/ SwitchToGenerate

ProxyNext ==
    \/ \E body \in Bodies : \E ext \in OkOutcomes({GenData(t) : t \in ForeignTasks}) \cup ErrOutcomes :
          RequestGenerateVideo(body, ext)
    \/ \E t \in ForeignTasks : \E ext \in OkOutcomes(StatusData(t)) \cup ErrOutcomes :
          RequestVideoStatus(t, ext)
    \/ \E ext \in OkOutcomes({NoData}) \cup ErrOutcomes : RequestCommunityVideos(ext)

\* The generation path alone: the form, handleGenerate and the POST route, the
\* route also called by other clients.
GenerateNext ==
    \/ \E s \in Strings : SetPrompt(s)
    \/ \E q \in {"low", "medium", "high"} : SetQuality(q)
    \/ HandleGenerate
    \/ \E r \in genReqs : GenerateFetchFails(r)
    \/ \E r \in genReqs : \E ext \in SessionOutcomes({GenData(nextTask)}) :
          GenerateResponds(r, ext)
    \/ \E body \in Bodies : \E ext \in SessionOutcomes({GenData(t) : t \in ForeignTasks}) :
          RequestGenerateVideo(body, ext)

\* A browser session on the Home page.
Spec == Init /\ [][SessionNext]_vars
\* The proxy routes called directly.
ProxySpec == Init /\ [][ProxyNext]_vars
GenerateSpec == Init /\ [][GenerateNext]_vars


(***************************************************************************)
(* Vocabulary of the properties.                                           *)
(***************************************************************************)
Tasks == 1..MaxTasks
LoopAlive(t) == (\E x \in timers : x.id = t) \/ (\E x \in polls : x.id = t)
PollingStarted(t) == t < nextTask
IsErrorResponse(ext) == ext.kind = "response" /\ (ext.status < 200 \/ ext.status > 299)
GenericOf(h) ==
    CASE h = "POST" -> "Failed to start video generation"
      [] h = "GETStatus" -> "Failed to check video status"
      [] h = "GETCommunity" -> "Failed to fetch community videos"
      [] OTHER -> Undef
Blank(s) == \A i \in 1..Len(s) : s[i] = " "
Levels == {"low", "medium", "high"}
Forwarded == {px.calls[i] : i \in 1..Len(px.calls)}

(***************************************************************************)
(* C1.  In every state of a session, over clicks on Generate, tab switches *)
(* and timers firing, at most one poll timer is outstanding.               *)
(***************************************************************************)
C1_OneOutstandingTimer == Cardinality(timers) <= 1

\* C1, within one instance: no VideoGenerator instance has two timers outstanding.
C1_OneTimerPerInstance ==
    \A i \in 1..MaxMounts : Cardinality({t \in timers : t.owner = i}) <= 1

(***************************************************************************)
(* C2.  As stated: an error response of the external service with status s *)
(* and a detail field d is answered by each proxy with status s and body   *)
(* {error: d}.                                                             *)
(***************************************************************************)
C2_DetailAlwaysRelayed ==
    (IsErrorResponse(px.ext) /\ px.ext.detail # Undef)
        => (px.resp.status = px.ext.status /\ px.resp.error = px.ext.detail)

\* C2, amended: the status is s; the body is {error: d} when d is a non-empty
\* string, and {error: <the handler's generic message>} when d is empty or absent.
C2_DetailRelayedWhenNonEmpty ==
    IsErrorResponse(px.ext)
        => /\ px.resp.status = px.ext.status
           /\ px.resp.error = IF px.ext.detail \in {Undef, ""}
                              THEN GenericOf(px.handler) ELSE px.ext.detail

C2_Witness ==
    /\ px.handler = "GETStatus"
    /\ px.ext.status = 404 /\ px.ext.detail = "Task not found"
    /\ px.resp.status = 404 /\ px.resp.error = "Task not found"

(***************************************************************************)
(* C3.  When the external service gives no response at all, or the body of *)
(* the incoming request is not JSON, each proxy returns a response: HTTP   *)
(* 500 with its own generic message.                                       *)
(***************************************************************************)
C3_FailureIs500Generic ==
    (px.handler # "none" /\ (px.ext.kind = "none" \/ px.body.kind = "malformed"))
        => (px.resp.status = 500 /\ px.resp.error = GenericOf(px.handler))

C3_Witness ==
    /\ px.handler = "GETCommunity"
    /\ px.ext.kind = "none"
    /\ px.resp.status = 500 /\ px.resp.error = "Failed to fetch community videos"

(***************************************************************************)
(* C4.  As stated: for every response of the external service, success or  *)
(* error, the status of the proxy's response is the external status.       *)
(***************************************************************************)
C4_EveryStatusRelayed ==
    px.ext.kind = "response" => px.resp.status = px.ext.status

\* C4, amended: an error status is relayed; every 2xx status is answered with 200.
C4_ErrorStatusRelayedSuccessIs200 ==
    px.ext.kind = "response"
        => px.resp.status = IF IsErrorResponse(px.ext) THEN px.ext.status ELSE 200

C4_Witness ==
    /\ px.handler = "POST"
    /\ px.ext.kind = "response" /\ px.ext.status = 202
    /\ px.resp.status = 200

(***************************************************************************)
(* C5.  No generation request with an empty prompt reaches the external    *)
(* service: handleGenerate sends nothing for an empty or whitespace-only   *)
(* prompt, the POST route answers 400 "Prompt is required" without calling *)
(* the service when the prompt is missing or empty, and every forwarded    *)
(* generation request carries a non-empty prompt.                          *)
(***************************************************************************)
C5_NoEmptyPromptForwarded ==
    /\ \A r \in genReqs : ~Blank(r.prompt)
    /\ (px.handler = "POST" /\ px.body.kind \in {"object", "primitive"}
            /\ px.body.prompt \in {PUndef, PStr(<<>>)})
        => (px.resp.status = 400 /\ px.resp.error = "Prompt is required"
            /\ px.calls = <<>>)
    /\ \A c \in Forwarded :
          c.endpoint = "generate-video/" => c.prompt \notin {PUndef, PNull, PStr(<<>>)}

C5_Witness ==
    /\ genReqs # {}
    /\ px.handler = "POST" /\ px.body.prompt = PStr(<<>>)
    /\ px.resp.status = 400 /\ px.calls = <<>>

(***************************************************************************)
(* C6.  As stated: every generation request the POST route forwards has    *)
(* quality in {low, medium, high} and max_retries 5, whatever the body.    *)
(***************************************************************************)
C6_ForwardedQualityInEnum ==
    \A c \in Forwarded :
        c.endpoint = "generate-video/" => (c.quality \in Levels /\ c.max_retries = 5)

\* C6, amended: a forwarded generation request has max_retries 5 and the quality
\* of the incoming body, or low when the body has none; so it is in
\* {low, medium, high} when the incoming quality is absent or one of the three,
\* as it is in every request VideoGenerator sends.
C6_ForwardedQualityIsIncoming ==
    /\ \A r \in genReqs : r.quality \in Levels
    /\ px.handler = "POST" =>
          \A c \in Forwarded :
              /\ c.max_retries = 5
              /\ c.quality = IF px.body.quality = Undef THEN "low" ELSE px.body.quality
              /\ px.body.quality \in Levels \cup {Undef} => c.quality \in Levels

C6_Witness ==
    /\ px.handler = "POST" /\ px.body.quality = Undef
    /\ \E c \in Forwarded : c.quality = "low" /\ c.max_retries = 5

(***************************************************************************)
(* C7.  As stated: once polling for a task has started, the loop stops     *)
(* only when a status response with status completed or failed arrived.    *)
(***************************************************************************)
C7_StopsOnlyOnTerminalStatus ==
    \A t \in Tasks :
        (PollingStarted(t) /\ ~LoopAlive(t)) => ended[t] \in {"video", "completed", "failed"}

\* C7, amended: the loop of a task has stopped exactly when a status response
\* with status completed or failed arrived or a poll failed (non-OK response or
\* fetch error); in every other case a poll of the task is in flight or scheduled.
C7_StopsOnTerminalStatusOrFailure ==
    \A t \in Tasks :
        PollingStarted(t) =>
            /\ ~LoopAlive(t) <=> ended[t] \in {"video", "completed", "failed", "error"}
            /\ LoopAlive(t) <=> ended[t] = "no"

C7_Witness ==
    \E t \in Tasks : PollingStarted(t) /\ ~LoopAlive(t) /\ ended[t] = "error"

(***************************************************************************)
(* C8.  After a successful status response that is not completed or failed *)
(* exactly one next poll of the same task is scheduled, always with the    *)
(* delay of 60 s; after completed or failed none is, and no status request *)
(* for the task is issued any more.                                        *)
(***************************************************************************)
C8_TimersAreFixedAndLive ==
    /\ \A t \in timers : t.delay = 60000 /\ ended[t.id] = "no"
    /\ \A p \in polls : ended[p.id] = "no"
    /\ \A t \in Tasks :
          Cardinality({x \in timers : x.id = t}) + Cardinality({x \in polls : x.id = t}) <= 1

C8_StepAfterStatus ==
    \A p \in polls :
        p \notin polls' =>
            IF ended'[p.id] = "no"
            THEN /\ [owner |-> p.owner, id |-> p.id, delay |-> 60000] \notin timers
                 /\ timers' = timers \cup {[owner |-> p.owner, id |-> p.id, delay |-> 60000]}
            ELSE timers' = timers /\ polls' = polls \ {p}

C8_FixedIntervalPolling == [](C8_TimersAreFixedAndLive) /\ [][C8_StepAfterStatus]_vars

C8_Witness ==
    /\ vg.status.status = "processing" /\ vg.progress = 50
    /\ \E t \in timers : t.id = vg.taskId /\ t.owner = inst /\ t.delay = 60000

(***************************************************************************)
(* C9.  When the generate request or a status poll fails, no further       *)
(* request for the task is issued, the client ends with error set to the   *)
(* failure message and isGenerating false, and a proxy handler makes at    *)
(* most one call to the external service per request.                      *)
(***************************************************************************)
FailureMessage == IF px' = NoRun THEN "Failed to fetch" ELSE px'.resp.error
FailureShown == tab' = "generate" /\ vg'.error = FailureMessage /\ ~vg'.isGenerating

C9_StepOnFailure ==
    /\ \A r \in genReqs :
          (r \notin genReqs' /\ nextTask' = nextTask) =>
              (FailureShown /\ polls' = polls /\ timers' = timers)
    /\ \A p \in polls :
          (p \notin polls' /\ ended'[p.id] = "error") =>
              (FailureShown /\ polls' = polls \ {p} /\ timers' = timers)
    /\ Len(px'.calls) <= 1

C9_FailureEndsInErrorState == [][C9_StepOnFailure]_vars

\* C9, for a request whose VideoGenerator instance is still mounted.
C9_StepOnFailureMounted ==
    /\ \A r \in genReqs :
          (r \notin genReqs' /\ nextTask' = nextTask) =>
              /\ polls' = polls /\ timers' = timers
              /\ (tab = "generate" /\ r.owner = inst) => FailureShown
    /\ \A p \in polls :
          (p \notin polls' /\ ended'[p.id] = "error") =>
              /\ polls' = polls \ {p} /\ timers' = timers
              /\ (tab = "generate" /\ p.owner = inst) => FailureShown
    /\ Len(px'.calls) <= 1

C9_NoRetryAndErrorWhileMounted == [][C9_StepOnFailureMounted]_vars

(***************************************************************************)
(* C10.  Once the status completed with a video_url has been reported for  *)
(* the task of the user's latest generation, the client is in the state    *)
(* with status completed, progress 100 and isGenerating false in which the *)
(* video is displayed, until the user starts a new generation.  (When that *)
(* response has been handled the loop is over: what is not displayed then  *)
(* never will be.)                                                         *)
(***************************************************************************)
ResultShown(t) ==
    /\ Displayed
    /\ vg.status.task_id = t
    /\ vg.progress = 100
    /\ ~vg.isGenerating

C10_CompletedVideoIsShown ==
    \A t \in Tasks :
        (latest = t /\ ended[t] = "video" /\ tab = "generate") => ResultShown(t)

\* C10, while the VideoGenerator that started the generation was never unmounted.
C10_ShownWhileNeverUnmounted ==
    \A t \in Tasks :
        (latest = t /\ ended[t] = "video" /\ tab = "generate" /\ inst = 1) => ResultShown(t)

\* The liveness reading of C10.  A scheduled timer fires (setTimeout), and the
\* service, asked again and again about a task, eventually answers completed
\* with a video url.
CompletedWithVideo(t) ==
    [kind |-> "response", status |-> 200, detail |-> Undef,
     data |-> [NoData EXCEPT !.task_id = t, !.status = "completed",
                             !.video_url = "http://v.mp4"]]

Fairness ==
    \A t \in Tasks :
        /\ WF_vars(\E x \in timers : x.id = t /\ TimerFires(x))
        /\ SF_vars(\E p \in polls : p.id = t /\ PollResponds(p, CompletedWithVideo(t)))

FairSpec == Init /\ [][SessionNext]_vars /\ Fairness

Settled(t) == ended[t] \in {"error", "failed", "completed"}

\* Under FairSpec this is violated: the loop of an unmounted instance runs to
\* the completed answer and the remounted component never shows it.
C10_EventuallyShown ==
    \A t \in Tasks :
        [](latest = t => <>(ResultShown(t) \/ latest # t \/ Settled(t)))

\* Under FairSpec this holds: the result appears unless the user leaves the tab.
C10_EventuallyShownWhileMounted ==
    \A t \in Tasks :
        []((latest = t /\ inst = 1 /\ tab = "generate")
              => <>(ResultShown(t) \/ latest # t \/ tab # "generate" \/ Settled(t)))

=============================================================================
